---- MODULE Spec2Model ----
(***************************************************************************)
(* Model of intelligent_scraper.py: the natural-language ranch search of   *)
(* ShorthornApiScraper.  One invocation of search() is followed through    *)
(* its two blocking external calls (the interpretation service and the     *)
(* HTTP endpoint).  Python strings are TLA+ strings; Python values that    *)
(* come out of json.loads are tagged records.                              *)
(***************************************************************************)
EXTENDS Integers, Sequences, FiniteSets, TLC

VARIABLES
    model,          \* AIProcessor.model is not None
    pc,             \* position of the invocation of search()
    command,        \* the command text search() was called with
    parsed_query,   \* what interpret_command returned
    params,         \* the parameters handed to requests.get
    response,       \* what the endpoint answered
    tried,          \* the read_html attempts made, in order
    outcome,        \* what search() gave its caller
    ai_calls,       \* calls of model.generate_content in this invocation
    http_calls,     \* calls of requests.get in this invocation
    location_data,  \* the contents of the module-level dict LOCATION_DATA
    workers         \* the local variables of invocations that run in threads

vars == <<model, pc, command, parsed_query, params, response, tried, outcome,
          ai_calls, http_calls, location_data, workers>>

(***************************************************************************)
(* Python strings.                                                         *)
(***************************************************************************)
Upper == <<"A","B","C","D","E","F","G","H","I","J","K","L","M",
           "N","O","P","Q","R","S","T","U","V","W","X","Y","Z">>
LowerLetters == <<"a","b","c","d","e","f","g","h","i","j","k","l","m",
                  "n","o","p","q","r","s","t","u","v","w","x","y","z">>

\* str.lower() on one character
LowerChar(c) ==
    IF \E i \in 1..Len(Upper) : Upper[i] = c
    THEN LowerLetters[CHOOSE i \in 1..Len(Upper) : Upper[i] = c]
    ELSE c

\* str.lower(): lowercases the halves of s down to single characters
RECURSIVE Lower(_)
Lower(s) ==
    IF Len(s) = 0 THEN ""
    ELSE IF Len(s) = 1 THEN LowerChar(s)
    ELSE Lower(SubSeq(s, 1, Len(s) \div 2)) \o Lower(SubSeq(s, (Len(s) \div 2) + 1, Len(s)))

\* Python's  p in s  for two strings
Contains(s, p) ==
    \E i \in 1..(Len(s) - Len(p) + 1) : SubSeq(s, i, i + Len(p) - 1) = p

\* the characters str.strip() removes
Whitespace == {" ", "\n", "\t", "\r"}

RECURSIVE LStrip(_)
LStrip(s) ==
    IF Len(s) > 0 /\ SubSeq(s, 1, 1) \in Whitespace
    THEN LStrip(SubSeq(s, 2, Len(s))) ELSE s

RECURSIVE RStrip(_)
RStrip(s) ==
    IF Len(s) > 0 /\ SubSeq(s, Len(s), Len(s)) \in Whitespace
    THEN RStrip(SubSeq(s, 1, Len(s) - 1)) ELSE s

\* str.strip()
Strip(s) == RStrip(LStrip(s))

\* str.replace(old, ""): every occurrence of old, left to right, removed
RECURSIVE RemoveAll(_, _)
RemoveAll(s, old) ==
    IF Len(s) < Len(old) THEN s
    ELSE IF SubSeq(s, 1, Len(old)) = old
    THEN RemoveAll(SubSeq(s, Len(old) + 1, Len(s)), old)
    ELSE SubSeq(s, 1, 1) \o RemoveAll(SubSeq(s, 2, Len(s)), old)

(***************************************************************************)
(* Python values as json.loads produces them.                              *)
(***************************************************************************)
Null == [t |-> "null"]
Str(x) == [t |-> "str", s |-> x]
Num(x) == [t |-> "num", n |-> x]
Bool(x) == [t |-> "bool", b |-> x]
List(x) == [t |-> "list", items |-> x]
Dict(x) == [t |-> "dict", d |-> x]

\* Python truthiness:  not v
Falsy(v) ==
    CASE v.t = "null" -> TRUE
      [] v.t = "str"  -> v.s = ""
      [] v.t = "num"  -> v.n = 0
      [] v.t = "bool" -> ~v.b
      [] v.t = "list" -> v.items = <<>>
      [] v.t = "dict" -> DOMAIN v.d = {}

\* dict.get(k): None for a missing key
Get(v, k) == IF k \in DOMAIN v.d THEN v.d[k] ELSE Null

(***************************************************************************)
(* LOCATION_DATA                                                           *)
(***************************************************************************)
UnitedStatesProvinces ==
    ("alabama" :> "AL") @@ ("arizona" :> "AZ") @@ ("arkansas" :> "AR") @@
    ("california" :> "CA") @@ ("colorado" :> "CO") @@ ("delaware" :> "DE") @@
    ("florida" :> "FL") @@ ("georgia" :> "GA") @@ ("idaho" :> "ID") @@
    ("illinois" :> "IL") @@ ("indiana" :> "IN") @@ ("iowa" :> "IA") @@
    ("kansas" :> "KS") @@ ("kentucky" :> "KY") @@ ("louisiana" :> "LA") @@
    ("maine" :> "ME") @@ ("maryland" :> "MD") @@ ("michigan" :> "MI") @@
    ("minnesota" :> "MN") @@ ("mississippi" :> "MS") @@ ("missouri" :> "MO") @@
    ("montana" :> "MT") @@ ("nebraska" :> "NE") @@ ("nevada" :> "NV") @@
    ("new hampshire" :> "NH") @@ ("new jersey" :> "NJ") @@
    ("new mexico" :> "NM") @@ ("new york" :> "NY") @@
    ("north carolina" :> "NC") @@ ("north dakota" :> "ND") @@ ("ohio" :> "OH") @@
    ("oklahoma" :> "OK") @@ ("oregon" :> "OR") @@ ("pennsylvania" :> "PA") @@
    ("south carolina" :> "SC") @@ ("south dakota" :> "SD") @@
    ("tennessee" :> "TN") @@ ("texas" :> "TX") @@ ("utah" :> "UT") @@
    ("virginia" :> "VA") @@ ("washington" :> "WA") @@ ("wisconsin" :> "WI") @@
    ("wyoming" :> "WY")

CanadaProvinces ==
    ("alberta" :> "AB") @@ ("ontario" :> "ON") @@ ("quebec" :> "QC") @@
    ("saskatchewan" :> "SK")

ArgentinaProvinces == <<>>

LOCATION_DATA ==
    ("united states" :> [api_code |-> "United States", provinces |-> UnitedStatesProvinces]) @@
    ("canada" :> [api_code |-> "Canada", provinces |-> CanadaProvinces]) @@
    ("argentina" :> [api_code |-> "Argentina", provinces |-> ArgentinaProvinces])

(***************************************************************************)
(* AIProcessor.interpret_command                                           *)
(***************************************************************************)
\* a fault: with no model, guess a query with nothing constrained
HeuristicFallback == Dict([country |-> Null, province |-> Null, name |-> Null])

\* the early return when no model was initialised
ModelNotAvailable == Dict([error |-> Str("AI model not available.")])

\* the markdown code fence: three backquotes, a character a TLA+ string
\* cannot hold, so the apostrophe stands for it here and in AiTexts
Fence == "'''"

\* cleaned_response: the text stripped, then the code fences removed
CleanedResponse(text) == RemoveAll(RemoveAll(Strip(text), Fence \o "json"), Fence)

\* json.loads on the documents the service is modelled to send as text;
\* white space around the document is skipped, any other text is no JSON
JsonDocuments ==
    ("{\"country\": \"canada\", \"province\": \"alberta\", \"name\": null}"
        :> Dict([country |-> Str("canada"), province |-> Str("alberta"), name |-> Null])) @@
    ("{\"country\": null, \"province\": null, \"name\": \"Creek\"}"
        :> Dict([country |-> Null, province |-> Null, name |-> Str("Creek")])) @@
    ("[]" :> List(<<>>)) @@
    ("null" :> Null)

JsonDecodeError == "Expecting value: line 1 column 1 (char 0)"

\* the except branch of interpret_command
FailedToParse(msg) == Dict([error |-> Str("Failed to parse AI response: " \o msg)])

\* The try block around generate_content and json.loads.  o is what the
\* service call came to: an exception, a response text, or (for the many
\* answers not written out as text) the value its cleaned text decodes to.
InterpretResponse(o) ==
    CASE o.kind = "raise" -> FailedToParse(o.msg)
      [] o.kind = "text" ->
            IF Strip(CleanedResponse(o.text)) \in DOMAIN JsonDocuments
            THEN JsonDocuments[Strip(CleanedResponse(o.text))]
            ELSE FailedToParse(JsonDecodeError)
      [] o.kind = "value" -> o.value

(***************************************************************************)
(* ShorthornApiScraper.search, up to the call of _call_api                 *)
(***************************************************************************)
Return(value) == [kind |-> "return", value |-> value]
Raise(exc) == [kind |-> "raise", exc |-> exc]
Call(p) == [kind |-> "call", params |-> p]

\* "error" in parsed_query, for the types that support  in
HasError(pq) ==
    CASE pq.t = "dict" -> "error" \in DOMAIN pq.d
      [] pq.t = "list" -> \E i \in 1..Len(pq.items) : pq.items[i] = Str("error")
      [] pq.t = "str"  -> Contains(pq.s, "error")
      [] OTHER         -> FALSE

\* a fault: no separator when the whole country is searched
LocationStringBare(country_data, province_code) ==
    IF province_code = "" THEN country_data.api_code
    ELSE country_data.api_code \o "|" \o province_code

\* the location string of a recognised country
LocationString(country_data, province_code) ==
    country_data.api_code \o "|" \o province_code

\* lines 118-131: the country and province lookups
ResolveLocation(registry, pq, v) ==
    LET country == Get(pq, "country")
        province == Get(pq, "province")
    IN  IF Falsy(country) THEN Call([l |-> "", v |-> v])
        ELSE IF country.t # "str" THEN Raise("AttributeError")
        ELSE IF Lower(country.s) \notin DOMAIN registry
        THEN Return([error |-> "Negara tidak dikenal: " \o country.s])
        ELSE LET country_data == registry[Lower(country.s)]
             IN  IF Falsy(province)
                 THEN Call([l |-> LocationString(country_data, ""), v |-> v])
                 ELSE IF province.t # "str" THEN Raise("AttributeError")
                 ELSE IF Lower(province.s) \notin DOMAIN country_data.provinces
                 THEN Return([error |-> "Provinsi/Negara Bagian tidak dikenal '"
                                        \o province.s \o "' untuk " \o country.s])
                 ELSE Call([l |-> LocationString(country_data,
                                     country_data.provinces[Lower(province.s)]),
                            v |-> v])

\* a fault: the name is lowercased like the country and the province
NameParamLowered(name) ==
    IF Falsy(name) THEN Str("")
    ELSE IF name.t = "str" THEN Str(Lower(name.s)) ELSE name

\* params['v']:  parsed_query.get('name') or ''
NameParam(name) == IF Falsy(name) THEN Str("") ELSE name

\* a fault: the error returned by interpret_command is not looked at
ResolveUnchecked(registry, pq) ==
    IF pq.t # "dict" THEN Raise("AttributeError")
    ELSE ResolveLocation(registry, pq, NameParam(Get(pq, "name")))

\* lines 108-133, with the LOCATION_DATA the lookups at 119 and 125 read
Resolve(registry, pq) ==
    IF Falsy(pq) \/ (pq.t \in {"dict", "list", "str"} /\ HasError(pq))
    THEN IF pq.t = "dict"
         THEN Return([error |-> "Gagal menafsirkan perintah.",
                      details |-> Get(pq, "error")])
         ELSE Raise("AttributeError")
    ELSE IF pq.t \in {"num", "bool"} THEN Raise("TypeError")
    ELSE IF pq.t # "dict" THEN Raise("AttributeError")
    ELSE ResolveLocation(registry, pq, NameParam(Get(pq, "name")))

\* a fault: the location string is built in place, in the entry of the country
WrittenBack(registry, pq) ==
    LET r == Resolve(registry, pq)
    IN  IF r.kind = "call" /\ r.params.l # ""
        THEN [registry EXCEPT ![Lower(Get(pq, "country").s)].api_code = r.params.l]
        ELSE registry

\* LOCATION_DATA after lines 108-133: search only reads it (.get at 119 and
\* 125, ['api_code'] at 123); the += at 128 and 130 rebinds the local string
LocationDataAfter(registry, pq) == registry

(***************************************************************************)
(* pandas: the frames read_html returns and their conversion to text       *)
(***************************************************************************)
NaN == [t |-> "nan"]

Digits == <<"0","1","2","3","4","5","6","7","8","9">>

\* str(n) for a natural number
RECURSIVE NatStr(_)
NatStr(n) == IF n < 10 THEN Digits[n + 1] ELSE NatStr(n \div 10) \o Digits[(n % 10) + 1]

\* str(col) and astype(str) on one value of a frame
PyStr(v) ==
    CASE v.t = "str" -> v.s
      [] v.t = "num" -> NatStr(v.n)
      [] v.t = "nan" -> "nan"

\* header = [str(col) for col in results_df.columns]
Header(df) == [j \in 1..Len(df.columns) |-> PyStr(df.columns[j])]

\* one row of results_df.astype(str).values.tolist()
RowText(row) == [j \in 1..Len(row) |-> PyStr(row[j])]

\* data = results_df.astype(str).values.tolist()
Data(df) == [i \in 1..Len(df.rows) |-> RowText(df.rows[i])]

(***************************************************************************)
(* ShorthornApiScraper._call_api                                           *)
(***************************************************************************)
no_results_indicators ==
    <<"No records found matching your criteria", "No records found",
      "No results found", "0 records found">>

empty_patterns == <<"no data", "empty", "no results", "not found">>

\* a fault: the fast parser is tried first
parsersLxmlFirst == <<"lxml", "bs4", "html5lib">>

parsers == <<"html5lib", "bs4", "lxml">>

\* a fault: only the first phrase of the list is looked for
HasFirstIndicatorOnly(html_content) ==
    Contains(html_content, no_results_indicators[1])

\* any(indicator in html_content for indicator in no_results_indicators)
HasNoResultsIndicator(html_content) ==
    \E i \in 1..Len(no_results_indicators) :
        Contains(html_content, no_results_indicators[i])

\* a fault: a page no parser could read always counts as empty
HasEmptyPatternAlways(html_content) == TRUE

\* any(pattern in html_lower for pattern in [...])
HasEmptyPattern(html_content) ==
    \E i \in 1..Len(empty_patterns) : Contains(Lower(html_content), empty_patterns[i])

\* pd.read_html(StringIO(html_content), flavor=parser): the tables this
\* parser finds in the page when it works on it, an exception when it does
\* not or when it finds no table ("No tables found").
ReadHtml(resp, parser) ==
    IF resp.works[parser] /\ resp.seen[parser] # <<>>
    THEN [raised |-> FALSE, df_list |-> resp.seen[parser]]
    ELSE [raised |-> TRUE, df_list |-> <<>>]

\* lines 161-168: the parsers tried in order, up to the first that returns
RECURSIVE ParserLoop(_, _)
ParserLoop(resp, i) ==
    IF i > Len(parsers) THEN [raised |-> TRUE, df_list |-> <<>>, tried |-> <<>>]
    ELSE LET r == ReadHtml(resp, parsers[i])
         IN  IF ~r.raised
             THEN [raised |-> FALSE, df_list |-> r.df_list, tried |-> <<parsers[i]>>]
             ELSE LET rest == ParserLoop(resp, i + 1)
                  IN  [rest EXCEPT !.tried = <<parsers[i]>> \o @]

\* lines 157-175: the loop, then read_html without a flavor if df_list is None
Extract(resp) ==
    LET loop == ParserLoop(resp, 1)
    IN  IF ~loop.raised THEN loop
        ELSE LET r == ReadHtml(resp, "default")
             IN  [raised |-> r.raised, df_list |-> r.df_list,
                  tried |-> loop.tried \o <<"default">>]

\* a fault: the last table of the page is taken
ShapeLastTable(df_list) ==
    [header |-> Header(df_list[Len(df_list)]), data |-> Data(df_list[Len(df_list)])]

\* lines 190-200
Shape(df_list) == [header |-> Header(df_list[1]), data |-> Data(df_list[1])]

\* a fault: the status of the answer is not looked at
RaisesOnTransportOnly(resp) == resp.kind = "ConnectionError"

\* lines 139-140, caught at 202: requests.get raising a RequestException
\* or raise_for_status raising HTTPError on a status that is not 2xx
RaisesRequestException(resp) == resp.kind \in {"ConnectionError", "HTTPError"}

\* caught at 204: requests.get raising anything that is no RequestException
RaisesOtherException(resp) == resp.kind \notin {"ok", "ConnectionError", "HTTPError"}

\* a fault: the words for an empty page are looked for before the tables
CallApiPatternsFirst(resp) ==
    IF RaisesRequestException(resp)
    THEN [result |-> [error |-> "Gagal menghubungi API: " \o resp.kind], tried |-> <<>>]
    ELSE IF RaisesOtherException(resp)
    THEN [result |-> [error |-> "Error tidak terduga: " \o resp.kind], tried |-> <<>>]
    ELSE IF HasNoResultsIndicator(resp.html) \/ HasEmptyPattern(resp.html)
    THEN [result |-> [header |-> <<>>, data |-> <<>>], tried |-> <<>>]
    ELSE LET x == Extract(resp)
         IN  IF x.raised \/ Len(x.df_list) = 0
             THEN [result |-> [error |-> "Gagal mem-parsing tabel dari respons API: No tables found"],
                   tried |-> x.tried]
             ELSE [result |-> Shape(x.df_list), tried |-> x.tried]

\* lines 138-206: the result and the read_html attempts made
CallApi(resp) ==
    IF RaisesRequestException(resp)
    THEN [result |-> [error |-> "Gagal menghubungi API: " \o resp.kind], tried |-> <<>>]
    ELSE IF RaisesOtherException(resp)
    THEN [result |-> [error |-> "Error tidak terduga: " \o resp.kind], tried |-> <<>>]
    ELSE IF HasNoResultsIndicator(resp.html)
    THEN [result |-> [header |-> <<>>, data |-> <<>>], tried |-> <<>>]
    ELSE LET x == Extract(resp)
         IN  IF x.raised \/ Len(x.df_list) = 0
             THEN IF HasEmptyPattern(resp.html)
                  THEN [result |-> [header |-> <<>>, data |-> <<>>], tried |-> x.tried]
                  ELSE [result |-> [error |-> "Gagal mem-parsing tabel dari respons API: No tables found"],
                        tried |-> x.tried]
             ELSE [result |-> Shape(x.df_list), tried |-> x.tried]

(***************************************************************************)
(* What the two external services can answer                               *)
(***************************************************************************)
MaxRows == 2
MaxCols == 2

Commands == {"Find all ranches in Texas", "argentina any?"}

CountryValues ==
    {Null, Num(5)} \cup
    {Str(c) : c \in {"", "canada", "Canada", "CANADA", "united states",
                     "United States", "argentina", "usa", "canad"}}

ProvinceValues ==
    {Null, Num(5)} \cup
    {Str(p) : p \in DOMAIN UnitedStatesProvinces \cup DOMAIN CanadaProvinces
                    \cup {"", "Texas", "ALBERTA", "bavaria", "tex"}}

NameValues == {Null, Num(5)} \cup {Str(n) : n \in {"", "Circle M", "creek"}}

\* objects with the three keys the prompt asks for
Queries ==
    {Dict([country |-> c, province |-> p, name |-> n]) :
        c \in CountryValues, p \in ProvinceValues, n \in NameValues}

\* JSON the prompt did not ask for
OtherJson ==
    {Null, Num(0), Num(5), Bool(TRUE), Bool(FALSE), Str(""), Str("no idea"),
     Str("an error occurred"), List(<<>>), List(<<Str("error")>>),
     List(<<Num(1)>>), Dict(<<>>), Dict([foo |-> Str("bar")]),
     Dict([name |-> Str("creek")]), Dict([country |-> Str("canada")]),
     Dict([error |-> Str("cannot parse the command")]),
     Dict([country |-> Str("canada"), province |-> Null, name |-> Null,
           error |-> Null])}

Value(v) == [kind |-> "value", value |-> v]
Failure(m) == [kind |-> "raise", msg |-> m]

ResponseText(t) == [kind |-> "text", text |-> t]

\* generate_content raising
AiFailures == {Failure("503 The service is currently unavailable.")}

\* response.text as the service may word it: bare, fenced, padded, prose
AiTexts ==
    {"{\"country\": \"canada\", \"province\": \"alberta\", \"name\": null}",
     "'''json\n{\"country\": \"canada\", \"province\": \"alberta\", \"name\": null}\n'''\n",
     "  '''\n{\"country\": null, \"province\": null, \"name\": \"Creek\"}\n'''",
     "'''json\n[]\n'''",
     "null",
     "Sorry, I can only parse ranch queries.",
     ""}

AiOutcomes ==
    AiFailures \cup {ResponseText(t) : t \in AiTexts}
    \cup {Value(v) : v \in Queries \cup OtherJson}

FewAiOutcomes ==
    {Value(Dict([country |-> Str("united states"), province |-> Str("texas"),
                 name |-> Str("Circle M")])),
     Value(Dict([country |-> Null, province |-> Null, name |-> Null])),
     ResponseText("Sorry, I can only parse ranch queries.")}

CellNames == <<"Circle M", "TX", "Empty Creek", "AB", "No records found">>
ColumnNames == <<"Name", "State", "Country", "City">>

\* a table without a header row: pandas numbers the columns
PlainFrame(n, m) ==
    [columns |-> [j \in 1..m |-> Num(j - 1)],
     rows |-> [i \in 1..n |->
                 [j \in 1..m |-> Str(CellNames[(((i - 1) * m + j - 1) % Len(CellNames)) + 1])]]]

\* a table with a header row and numeric cells, some of them missing
NamedFrame(n, m) ==
    [columns |-> [j \in 1..m |-> Str(ColumnNames[((j - 1) % Len(ColumnNames)) + 1])],
     rows |-> [i \in 1..n |->
                 [j \in 1..m |-> IF (i + j) % 3 = 0 THEN NaN ELSE Num(10 * i + j)]]]

Frames ==
    {PlainFrame(n, m) : n \in 0..MaxRows, m \in 1..MaxCols} \cup
    {NamedFrame(n, m) : n \in 0..MaxRows, m \in 1..MaxCols}

Layout == [columns |-> <<Num(0)>>, rows |-> <<<<Str("menu")>>>>]

TableLists ==
    {<<>>} \cup {<<f>> : f \in Frames} \cup {<<f, Layout>> : f \in Frames}
    \cup {<<Layout, f>> : f \in Frames}

RECURSIVE Join(_)
Join(seq) == IF seq = <<>> THEN "" ELSE Head(seq) \o Join(Tail(seq))

CellHtml(v) == "<td>" \o (IF v.t = "nan" THEN "" ELSE PyStr(v)) \o "</td>"
HeadHtml(v) == "<th>" \o PyStr(v) \o "</th>"
RowHtml(row) == "<tr>" \o Join([j \in 1..Len(row) |-> CellHtml(row[j])]) \o "</tr>"

\* the markup of one table
TableHtml(df) ==
    "<table>"
    \o (IF df.columns[1].t = "str"
        THEN "<tr>" \o Join([j \in 1..Len(df.columns) |-> HeadHtml(df.columns[j])]) \o "</tr>" ELSE "")
    \o Join([i \in 1..Len(df.rows) |-> RowHtml(df.rows[i])]) \o "</table>"

Proses ==
    {"", "No records found matching your criteria", "0 records found",
     "Sorry, NO RECORDS FOUND", "The list is Empty", "no results found",
     "Internal hiccup"}

Flavors == {"html5lib", "bs4", "lxml", "default"}

\* response.text of a 2xx answer, with what read_html makes of it: every
\* parser that works finds the tables of the markup
Page(prose, tables, works) ==
    [kind |-> "ok", html |-> prose \o Join([k \in 1..Len(tables) |-> TableHtml(tables[k])]),
     tables |-> tables, works |-> works, seen |-> [f \in Flavors |-> tables]]

\* a page whose first table is not closed as the strict parser wants it:
\* html5lib repairs the markup, lxml (also the parser read_html takes when
\* none is named) skips that table
TornPage(prose, tables, works) ==
    [Page(prose, tables, works) EXCEPT
        !.seen = [f \in Flavors |-> IF f \in {"lxml", "default"} THEN Tail(tables)
                                    ELSE tables]]

\* requests.get or raise_for_status raising
Failed(kind) ==
    [kind |-> kind, html |-> "", tables |-> <<>>, works |-> [f \in Flavors |-> FALSE],
     seen |-> [f \in Flavors |-> <<>>]]

\* an answer with a status that is not 2xx: it has a body like any other
ErrorPage(prose, tables) ==
    [Page(prose, tables, [f \in Flavors |-> TRUE]) EXCEPT !.kind = "HTTPError"]

ErrorPages ==
    {ErrorPage(p, tl) : p \in {"No records found", "404 Not Found"},
                        tl \in {<<>>, <<NamedFrame(1, 2)>>}}

\* requests.get raising a RequestException (ConnectionError, Timeout, ...),
\* raise_for_status raising HTTPError, or requests.get raising anything else
HttpFailures ==
    {Failed("ConnectionError"), Failed("HTTPError"), Failed("ValueError")} \cup ErrorPages

TornPages ==
    {TornPage(p, tl, w) : p \in {"", "The list is Empty"},
                          tl \in {<<NamedFrame(1, 2)>>, <<PlainFrame(1, 2), NamedFrame(1, 1)>>},
                          w \in [Flavors -> BOOLEAN]}

Responses ==
    HttpFailures \cup TornPages \cup
    {Page(p, tl, w) : p \in Proses, tl \in TableLists, w \in [Flavors -> BOOLEAN]}

FewResponses ==
    HttpFailures \cup
    {Page(p, tl, [f \in Flavors |-> TRUE]) :
        p \in {"", "No records found"}, tl \in {<<>>, <<NamedFrame(1, 2), Layout>>}}

(***************************************************************************)
(* One invocation of search()                                              *)
(***************************************************************************)
NoParams == [l |-> "", v |-> Null]
NoResponse == Failed("none")
NoOutcome == [kind |-> "none"]

\* invocations of search() on one scraper, each in a thread of its own
NumWorkers == 2
Workers == 1..NumWorkers

\* the locals of search() before it is called; answer is what
\* generate_content gave this invocation
NoAnswer == [kind |-> "none"]
IdleWorker ==
    [pc |-> "idle", command |-> "", answer |-> NoAnswer, parsed_query |-> Null,
     params |-> NoParams, response |-> NoResponse, outcome |-> NoOutcome]

Init ==
    /\ model \in BOOLEAN
    /\ pc = "idle"
    /\ command = ""
    /\ parsed_query = Null
    /\ params = NoParams
    /\ response = NoResponse
    /\ tried = <<>>
    /\ outcome = NoOutcome
    /\ ai_calls = 0
    /\ http_calls = 0
    /\ location_data = LOCATION_DATA
    /\ workers = [w \in Workers |-> IdleWorker]

\* search() with no model: interpret_command returns at once
SearchWithoutModel ==
    /\ pc = "idle"
    /\ ~model
    /\ \E c \in Commands : command' = c
    /\ parsed_query' = ModelNotAvailable
    /\ pc' = "parsed"
    /\ UNCHANGED <<model, params, response, tried, outcome, ai_calls, http_calls,
                 location_data, workers>>

\* search() with a model: interpret_command calls generate_content
SearchWithModel ==
    /\ pc = "idle"
    /\ model
    /\ \E c \in Commands : command' = c
    /\ ai_calls' = ai_calls + 1
    /\ pc' = "interpreting"
    /\ UNCHANGED <<model, parsed_query, params, response, tried, outcome, http_calls,
                 location_data, workers>>

\* the interpretation service answers
AiRespond(outcomes) ==
    /\ pc = "interpreting"
    /\ \E o \in outcomes : parsed_query' = InterpretResponse(o)
    /\ pc' = "parsed"
    /\ UNCHANGED <<model, command, params, response, tried, outcome, ai_calls, http_calls,
                 location_data, workers>>

\* search() from the return of interpret_command to requests.get
ResolveStep ==
    /\ pc = "parsed"
    /\ LET r == Resolve(location_data, parsed_query)
       IN  IF r.kind = "call"
           THEN /\ params' = r.params
                /\ http_calls' = http_calls + 1
                /\ pc' = "requesting"
                /\ UNCHANGED outcome
           ELSE /\ outcome' = r
                /\ pc' = "done"
                /\ UNCHANGED <<params, http_calls>>
    /\ location_data' = LocationDataAfter(location_data, parsed_query)
    /\ UNCHANGED <<model, command, parsed_query, response, tried, ai_calls, workers>>

\* the endpoint answers and _call_api runs to its return
HttpRespond(responses) ==
    /\ pc = "requesting"
    /\ \E resp \in responses :
         /\ response' = resp
         /\ tried' = CallApi(resp).tried
         /\ outcome' = Return(CallApi(resp).result)
    /\ pc' = "done"
    /\ UNCHANGED <<model, command, parsed_query, params, ai_calls, http_calls,
                 location_data, workers>>

\* the caller has the outcome; the scraper is ready for the next command
Finish ==
    /\ pc = "done"
    /\ pc' = "idle"
    /\ command' = ""
    /\ parsed_query' = Null
    /\ params' = NoParams
    /\ response' = NoResponse
    /\ tried' = <<>>
    /\ outcome' = NoOutcome
    /\ ai_calls' = 0
    /\ http_calls' = 0
    /\ UNCHANGED <<model, location_data, workers>>

Next ==
    \/ SearchWithoutModel
    \/ SearchWithModel
    \/ AiRespond(AiOutcomes)
    \/ ResolveStep
    \/ HttpRespond(FewResponses)
    \/ Finish

\* every interpreted query, a few endpoint answers
Spec == Init /\ [][Next]_vars

NextRetrieval ==
    \/ SearchWithoutModel
    \/ SearchWithModel
    \/ AiRespond(FewAiOutcomes)
    \/ ResolveStep
    \/ HttpRespond(Responses)
    \/ Finish

\* a few interpreted queries, every endpoint answer
SpecRetrieval == Init /\ [][NextRetrieval]_vars

(***************************************************************************)
(* Invocations of search() in threads: every step of a thread works on its *)
(* own locals, on self.ai_processor.model and on LOCATION_DATA.            *)
(***************************************************************************)
invocation == <<pc, command, parsed_query, params, response, tried, outcome,
                ai_calls, http_calls>>

WorkerAiOutcomes ==
    FewAiOutcomes \cup
    {Value(Dict([country |-> Str("United States"), province |-> Null, name |-> Null])),
     Value(Dict([country |-> Str("united states"), province |-> Str("utopia"),
                 name |-> Null]))}

WorkerResponses ==
    {Failed("ConnectionError"),
     Page("", <<NamedFrame(1, 2)>>, [f \in Flavors |-> TRUE]),
     Page("No records found", <<>>, [f \in Flavors |-> TRUE])}

\* lines 103-106 and 63-89: search() is called and reaches generate_content,
\* or interpret_command returns at once for want of a model
WorkerSearch(w) ==
    /\ workers[w].pc = "idle"
    /\ \E c \in Commands :
         workers' = [workers EXCEPT
                       ![w].command = c,
                       ![w].parsed_query = IF model THEN @ ELSE ModelNotAvailable,
                       ![w].pc = IF model THEN "interpreting" ELSE "parsed"]
    /\ UNCHANGED <<model, invocation, location_data>>

\* lines 89-95
WorkerAiRespond(w) ==
    /\ workers[w].pc = "interpreting"
    /\ \E o \in WorkerAiOutcomes :
         workers' = [workers EXCEPT ![w].answer = o,
                                    ![w].parsed_query = InterpretResponse(o),
                                    ![w].pc = "parsed"]
    /\ UNCHANGED <<model, invocation, location_data>>

\* lines 108-133
WorkerResolve(w) ==
    /\ workers[w].pc = "parsed"
    /\ LET r == Resolve(location_data, workers[w].parsed_query)
       IN  workers' = IF r.kind = "call"
                      THEN [workers EXCEPT ![w].params = r.params,
                                           ![w].pc = "requesting"]
                      ELSE [workers EXCEPT ![w].outcome = r, ![w].pc = "done"]
    /\ location_data' = LocationDataAfter(location_data, workers[w].parsed_query)
    /\ UNCHANGED <<model, invocation>>

\* lines 135-206
WorkerHttpRespond(w) ==
    /\ workers[w].pc = "requesting"
    /\ \E resp \in WorkerResponses :
         workers' = [workers EXCEPT ![w].response = resp,
                                    ![w].outcome = Return(CallApi(resp).result),
                                    ![w].pc = "done"]
    /\ UNCHANGED <<model, invocation, location_data>>

NextConcurrent ==
    \/ \E w \in Workers : WorkerSearch(w)
    \/ \E w \in Workers : WorkerAiRespond(w)
    \/ \E w \in Workers : WorkerResolve(w)
    \/ \E w \in Workers : WorkerHttpRespond(w)

\* invocations in threads, a few service and endpoint answers
SpecConcurrent == Init /\ [][NextConcurrent]_vars

(***************************************************************************)
(* Vocabulary of the properties                                            *)
(***************************************************************************)
\* search() has gone past resolution: it returned, raised or sent the request
Resolved == pc \in {"requesting", "done"}

\* an interpreted query: the three keys, each null or a string
IsInterpretedQuery(pq) ==
    /\ pq.t = "dict"
    /\ DOMAIN pq.d = {"country", "province", "name"}
    /\ \A k \in DOMAIN pq.d : pq.d[k].t \in {"null", "str"}

QCountry == parsed_query.d["country"]
QProvince == parsed_query.d["province"]
QName == parsed_query.d["name"]

CountryRecognised == QCountry.t = "str" /\ Lower(QCountry.s) \in DOMAIN LOCATION_DATA
Entry == LOCATION_DATA[Lower(QCountry.s)]

EmptyResult == Return([header |-> <<>>, data |-> <<>>])
IsErrorObject(o) == o.kind = "return" /\ "error" \in DOMAIN o.value

(***************************************************************************)
(* C1: for an interpreted query with a recognised country and a province   *)
(* that is given (not null) and, lowercased, is no key of that country's   *)
(* province map, search returns the unknown-province error and sends no    *)
(* HTTP request.                                                           *)
(***************************************************************************)
UnknownProvinceFailsClosed ==
    (/\ Resolved
     /\ IsInterpretedQuery(parsed_query)
     /\ CountryRecognised
     /\ QProvince.t = "str"
     /\ Lower(QProvince.s) \notin DOMAIN Entry.provinces)
    => /\ pc = "done"
       /\ outcome = Return([error |-> "Provinsi/Negara Bagian tidak dikenal '"
                                      \o QProvince.s \o "' untuk " \o QCountry.s])
       /\ http_calls = 0

(***************************************************************************)
(* C2: a country that is given (not null) resolves to the registered entry *)
(* exactly when its lowercased form is a registry key; every other given   *)
(* country ends in the unknown-country error with no request sent, so      *)
(* never in a request with an empty location.                              *)
(***************************************************************************)
UnknownCountryFailsClosed ==
    (/\ Resolved
     /\ IsInterpretedQuery(parsed_query)
     /\ QCountry.t = "str")
    => IF Lower(QCountry.s) \in DOMAIN LOCATION_DATA
       THEN /\ outcome # Return([error |-> "Negara tidak dikenal: " \o QCountry.s])
            /\ http_calls = 1 =>
                 SubSeq(params.l, 1, Len(Entry.api_code) + 1) = Entry.api_code \o "|"
       ELSE /\ pc = "done"
            /\ outcome = Return([error |-> "Negara tidak dikenal: " \o QCountry.s])
            /\ http_calls = 0

(***************************************************************************)
(* C3: the l parameter of a request is fixed by the interpreted query and  *)
(* the registry: apiCode|provinceCode for a country and province of the    *)
(* registry, apiCode| for a recognised country with no province, and the   *)
(* empty string when the country is absent, whatever the province is.      *)
(***************************************************************************)
LocationParameterExact ==
    (/\ Resolved
     /\ http_calls = 1
     /\ IsInterpretedQuery(parsed_query))
    => /\ (/\ CountryRecognised
           /\ QProvince.t = "str"
           /\ Lower(QProvince.s) \in DOMAIN Entry.provinces)
          => params.l = Entry.api_code \o "|" \o Entry.provinces[Lower(QProvince.s)]
       /\ (CountryRecognised /\ QProvince = Null)
          => params.l = Entry.api_code \o "|"
       /\ QCountry = Null => params.l = ""

\* a request for Texas written in mixed case, and one for all of Argentina
LocationParameterWitness ==
    /\ pc = "requesting"
    /\ IsInterpretedQuery(parsed_query)
    /\ \/ /\ QCountry = Str("United States")
          /\ QProvince = Str("Texas")
          /\ params.l = "United States|TX"
       \/ /\ QCountry = Str("argentina")
          /\ QProvince = Null
          /\ params.l = "Argentina|"

(***************************************************************************)
(* C4: the v parameter of a request is the interpreted name unchanged when *)
(* a name is present and the empty string when it is absent, whatever the  *)
(* country and province are.                                               *)
(***************************************************************************)
NameParameterPassthrough ==
    (/\ Resolved
     /\ http_calls = 1
     /\ IsInterpretedQuery(parsed_query))
    => /\ QName.t = "str" => params.v = QName
       /\ QName = Null => params.v = Str("")

\* a mixed-case name sent as it is, with a country and a province
NameParameterWitness ==
    /\ pc = "requesting"
    /\ IsInterpretedQuery(parsed_query)
    /\ QName = Str("Circle M")
    /\ QCountry = Str("canada")
    /\ QProvince = Str("alberta")
    /\ params.v = Str("Circle M")

(***************************************************************************)
(* C5: when the body of a fetched response holds one of the four primary   *)
(* phrases as a case-sensitive literal substring, retrieval returns the    *)
(* empty result (no header, no data, no error) whatever else the body      *)
(* holds, tables included, and no read_html attempt is made.               *)
(***************************************************************************)
PrimarySentinels ==
    {"No records found matching your criteria", "No records found",
     "No results found", "0 records found"}

HoldsPrimarySentinel(body) == \E ph \in PrimarySentinels : Contains(body, ph)

Fetched == pc = "done" /\ http_calls = 1 /\ response.kind = "ok"

PrimarySentinelGivesEmptyResult ==
    (Fetched /\ HoldsPrimarySentinel(response.html))
    => outcome = EmptyResult /\ tried = <<>>

\* a page with the phrase, a table with rows and every parser working
PrimarySentinelWitness ==
    /\ Fetched
    /\ HoldsPrimarySentinel(response.html)
    /\ Len(response.tables) > 0
    /\ Len(response.tables[1].rows) > 0
    /\ \A f \in Flavors : response.works[f]
    /\ outcome = EmptyResult

(***************************************************************************)
(* C6: when no read_html attempt extracts a table from a fetched body and  *)
(* the body matches no phrase of either set (the primary phrases as        *)
(* written, the secondary phrases in the lowercased body), retrieval       *)
(* returns the parse error and never the empty result.                     *)
(***************************************************************************)
SecondarySentinels == {"no data", "empty", "no results", "not found"}

HoldsSecondarySentinel(body) == \E ph \in SecondarySentinels : Contains(Lower(body), ph)

NothingExtracted == \A f \in Flavors : ~response.works[f] \/ response.seen[f] = <<>>

IsParseError(o) ==
    /\ o.kind = "return"
    /\ DOMAIN o.value = {"error"}
    /\ SubSeq(o.value.error, 1, 18) = "Gagal mem-parsing "

UnreadablePageGivesParseError ==
    (/\ Fetched
     /\ NothingExtracted
     /\ ~HoldsPrimarySentinel(response.html)
     /\ ~HoldsSecondarySentinel(response.html))
    => IsParseError(outcome) /\ outcome # EmptyResult

\* a page with a table that no parser manages to read, and no phrase
UnreadablePageWitness ==
    /\ Fetched
    /\ response.tables # <<>>
    /\ \A f \in Flavors : ~response.works[f]
    /\ ~HoldsPrimarySentinel(response.html)
    /\ ~HoldsSecondarySentinel(response.html)
    /\ tried = <<"html5lib", "bs4", "lxml", "default">>
    /\ IsParseError(outcome)

(***************************************************************************)
(* C7: a result with rows is rectangular and is the first extracted table: *)
(* one header entry per column, one data row per table row in the table's  *)
(* order, every row as long as the header.                                 *)
(***************************************************************************)
IsRows ==
    /\ pc = "done"
    /\ outcome.kind = "return"
    /\ DOMAIN outcome.value = {"header", "data"}
    /\ outcome.value.header # <<>>

RowsAreTheFirstTable ==
    IsRows =>
      LET first == response.seen[tried[Len(tried)]][1]
          header == outcome.value.header
          data == outcome.value.data
      IN  /\ Len(header) = Len(first.columns)
          /\ Len(data) = Len(first.rows)
          /\ \A i \in 1..Len(data) :
                /\ Len(data[i]) = Len(header)
                /\ \A j \in 1..Len(header) : data[i][j] = PyStr(first.rows[i][j])
          /\ \A j \in 1..Len(header) : header[j] = PyStr(first.columns[j])

\* a page with two tables, the first of two rows and two columns
RowsWitness ==
    /\ IsRows
    /\ Len(response.tables) = 2
    /\ response.tables[1] # response.tables[2]
    /\ Len(outcome.value.header) = 2
    /\ Len(outcome.value.data) = 2
    /\ outcome.value.data[2] = <<"Empty Creek", "AB">>

(***************************************************************************)
(* C8: with no model, every search fails with the interpretation error     *)
(* "AI model not available.", the same for every command, without a call   *)
(* of the interpretation service, without a guessed query and without an   *)
(* HTTP request.                                                           *)
(***************************************************************************)
ServiceUnavailable ==
    Return([error |-> "Gagal menafsirkan perintah.",
            details |-> Str("AI model not available.")])

HasQueryShape(pq) ==
    pq.t = "dict" /\ {"country", "province", "name"} \subseteq DOMAIN pq.d

IsInterpretationError(o) ==
    /\ o.kind = "return"
    /\ DOMAIN o.value = {"error", "details"}
    /\ o.value.error = "Gagal menafsirkan perintah."

MalformedAnswerIsRejected ==
    (Resolved /\ ai_calls = 1 /\ ~HasQueryShape(parsed_query))
    => /\ pc = "done"
       /\ IsInterpretationError(outcome)
       /\ http_calls = 0

(***************************************************************************)
(* C10: whatever the two services answer, search returns an object with    *)
(* header and data and no error, or an object with error (and possibly     *)
(* details) and neither header nor data; no exception reaches the caller.  *)
(***************************************************************************)
CallerGetsOneOfTwoShapes ==
    pc = "done" =>
      /\ outcome.kind = "return"
      /\ DOMAIN outcome.value \in {{"header", "data"}, {"error"}, {"error", "details"}}

(***************************************************************************)
(* C11: in one invocation the stages run in the order interpretation,      *)
(* resolution, retrieval: at most one call of the interpretation service   *)
(* and at most one HTTP request, the request only after interpretation and *)
(* resolution succeeded, and nothing runs after a stage that failed.       *)
(***************************************************************************)
StartsWith(s, prefix) ==
    Len(s) >= Len(prefix) /\ SubSeq(s, 1, Len(prefix)) = prefix

\* interpret_command came back with its error object
InterpretationFailed ==
    /\ pc \in {"parsed", "requesting", "done"}
    /\ parsed_query.t = "dict"
    /\ "error" \in DOMAIN parsed_query.d

\* search returned one of the two errors of the resolution stage
ResolutionFailed ==
    /\ pc = "done"
    /\ IsErrorObject(outcome)
    /\ \/ StartsWith(outcome.value.error, "Negara tidak dikenal:")
       \/ StartsWith(outcome.value.error, "Provinsi/Negara Bagian tidak dikenal ")

StagesRunInOrder ==
    /\ ai_calls <= 1
    /\ http_calls <= 1
    /\ pc \in {"idle", "interpreting", "parsed"} => http_calls = 0 /\ params = NoParams
    /\ pc = "interpreting" => ai_calls = 1
    /\ http_calls = 1 => /\ model /\ ai_calls = 1
                         /\ pc \in {"requesting", "done"}
                         /\ ~InterpretationFailed
                         /\ ~ResolutionFailed
    /\ response # NoResponse => http_calls = 1 /\ pc = "done"
    /\ (InterpretationFailed /\ pc = "done")
       => /\ IsInterpretationError(outcome)
          /\ params = NoParams /\ http_calls = 0 /\ response = NoResponse
    /\ ResolutionFailed
       => ai_calls = 1 /\ http_calls = 0 /\ response = NoResponse /\ tried = <<>>

\* the service failed: search is over with no resolution and no request
StagesWitness ==
    /\ pc = "done"
    /\ ai_calls = 1
    /\ parsed_query = FailedToParse("503 The service is currently unavailable.")
    /\ IsInterpretationError(outcome)
    /\ http_calls = 0

(***************************************************************************)
(* C12: when the HTTP request fails at transport level or the answer has a *)
(* status that is not 2xx, retrieval ends in the network error: there is   *)
(* no second request, the body is neither scanned for sentinel phrases nor *)
(* parsed, and no header/data is returned.                                 *)
(***************************************************************************)
RequestFailed ==
    /\ pc = "done"
    /\ response.kind \in {"ConnectionError", "HTTPError"}

IsNetworkError(o) ==
    /\ o.kind = "return"
    /\ DOMAIN o.value = {"error"}
    /\ StartsWith(o.value.error, "Gagal menghubungi API: ")

AloneParsedQuery(w) ==
    IF model THEN InterpretResponse(workers[w].answer) ELSE ModelNotAvailable

AloneResolved(w) == Resolve(LOCATION_DATA, AloneParsedQuery(w))

AloneParams(w) ==
    IF AloneResolved(w).kind = "call" THEN AloneResolved(w).params ELSE NoParams

AloneOutcome(w) ==
    IF AloneResolved(w).kind = "call"
    THEN Return(CallApi(workers[w].response).result)
    ELSE AloneResolved(w)

InvocationsAreIndependent ==
    /\ location_data = LOCATION_DATA
    /\ \A w \in Workers :
         /\ workers[w].pc = "requesting" => workers[w].params = AloneParams(w)
         /\ workers[w].pc = "done"
            => /\ workers[w].params = AloneParams(w)
               /\ workers[w].outcome = AloneOutcome(w)

\* two invocations about the same country, one done and one at its request
InvocationsWitness ==
    /\ workers[1].pc = "done"
    /\ workers[1].params.l = "United States|TX"
    /\ DOMAIN workers[1].outcome.value = {"header", "data"}
    /\ workers[2].pc = "requesting"
    /\ workers[2].params.l = "United States|"

(***************************************************************************)
(* C14: table extraction tries html5lib, bs4, lxml and then the attempt    *)
(* with no parser named, in this order: a strategy is tried only if every  *)
(* earlier one failed, extraction stops at the first strategy that yields  *)
(* a table, and the result is made of the tables of that strategy.         *)
(***************************************************************************)
StrategyOrder == <<"html5lib", "bs4", "lxml", "default">>

\* the strategy can read the answer and finds a table in it
Yields(f) == response.works[f] /\ response.seen[f] # <<>>

\* the body was fetched and holds no primary sentinel
Extracting == Fetched /\ ~HoldsPrimarySentinel(response.html)

StrategiesInFixedOrder ==
    Extracting =>
      LET n == Len(tried)
      IN  /\ n \in 1..Len(StrategyOrder)
          /\ \A i \in 1..n : tried[i] = StrategyOrder[i]
          /\ \A i \in 1..(n - 1) : ~Yields(tried[i])
          /\ n < Len(StrategyOrder) => Yields(tried[n])
          /\ Yields(tried[n])
             => LET first == response.seen[tried[n]][1]
                IN  /\ outcome.kind = "return"
                    /\ DOMAIN outcome.value = {"header", "data"}
                    /\ outcome.value.header
                         = [j \in 1..Len(first.columns) |-> PyStr(first.columns[j])]
                    /\ outcome.value.data
                         = [i \in 1..Len(first.rows) |->
                              [j \in 1..Len(first.rows[i]) |-> PyStr(first.rows[i][j])]]

\* html5lib and bs4 fail, lxml finds other tables than they would have, and
\* the attempt without a parser, which would work too, is not made
StrategiesWitness ==
    /\ Extracting
    /\ tried = <<"html5lib", "bs4", "lxml">>
    /\ response.works["default"]
    /\ response.seen["lxml"] # response.seen["html5lib"]
    /\ outcome.kind = "return"
    /\ DOMAIN outcome.value = {"header", "data"}
    /\ outcome.value.header = <<"Name">>

(***************************************************************************)
(* C15: the secondary sentinels count only after every extraction strategy *)
(* has failed: for a body with no primary sentinel, a table extracted by   *)
(* any strategy gives rows even when the lowercased body holds a secondary *)
(* sentinel; with no table extracted the result is empty when it holds one *)
(* and the parse error when it holds none.                                 *)
(***************************************************************************)
SecondarySentinelsComeLast ==
    Extracting =>
      IF \E f \in Flavors : Yields(f)
      THEN /\ outcome.kind = "return"
           /\ DOMAIN outcome.value = {"header", "data"}
           /\ outcome.value.header # <<>>
      ELSE IF HoldsSecondarySentinel(response.html)
           THEN outcome = EmptyResult
           ELSE IsParseError(outcome)

\* a table with a row under the words "The list is Empty"
SecondarySentinelWitness ==
    /\ Extracting
    /\ HoldsSecondarySentinel(response.html)
    /\ \E f \in Flavors : Yields(f)
    /\ outcome.kind = "return"
    /\ DOMAIN outcome.value = {"header", "data"}
    /\ Len(outcome.value.data) > 0

====
